---- MODULE Spec2Model ----
(***************************************************************************)
(* A model of the xdg-desktop-parser crate: the value parser               *)
(* (src/src/xdg_desktop_value.rs), the file parser                         *)
(* (src/src/xdg_desktop_file.rs) and the display conversions.              *)
(*                                                                         *)
(* Text is a sequence of one-character strings, so that splitting,         *)
(* stripping and parsing act on characters as the code does.               *)
(***************************************************************************)
EXTENDS Integers, Sequences, FiniteSets, TLC

VARIABLES
    \* XdgDesktopFile::from_str
    lines,                  \* s.lines(), the input of from_str
    pos,                    \* number of lines the for loop has consumed
    sections,               \* out.sections
    current_entry,          \* current_entry
    current_entry_header,   \* Option<&str>: <<>> is None, <<h>> is Some(h)
    ret,                    \* "running", "ok" (Ok(out)) or "err" (Err(Other(..)))
    \* XdgDesktopValue::from_kv
    kv_s,                   \* the argument s
    kv_k,                   \* k of split_once
    kv_v,                   \* v of split_once
    kv_key_base,            \* key_base
    kv_ret,                 \* the returned pair [key, res]
    kv_pc,                  \* "call" before the call, "done" after it
    \* Into<String> / Display / ToString
    d_self,                 \* the value being converted
    d_stack,                \* call stack, innermost frame last
    d_out,                  \* the returned String
    d_status                \* "running", "returned" or "stack_overflow"

fileVars == <<lines, pos, sections, current_entry, current_entry_header, ret>>
kvVars == <<kv_s, kv_k, kv_v, kv_key_base, kv_ret, kv_pc>>
dVars == <<d_self, d_stack, d_out, d_status>>
vars == <<fileVars, kvVars, dVars>>

----------------------------------------------------------------------------
(* Bounds of the model *)

\* longest input of from_str, in lines
MaxLines == 4
\* longest value text given to from_kv, in pieces of ValueChunks
MaxValueChunks == 3
\* longest key given to from_kv, in pieces of KeyChunks
MaxKeyChunks == 5
\* longest List given to the display conversions
MaxListLen == 2
\* frames the call stack holds before the thread overflows it
StackLimit == 6

----------------------------------------------------------------------------
(* Characters and text *)

Lower == {"a", "b", "c", "d", "e", "f", "g", "h", "i", "j", "k", "l", "m",
          "n", "o", "p", "q", "r", "s", "t", "u", "v", "w", "x", "y", "z"}
Upper == {"A", "B", "C", "D", "E", "F", "G", "H", "I", "J", "K", "L", "M",
          "N", "O", "P", "Q", "R", "S", "T", "U", "V", "W", "X", "Y", "Z"}
Digit == {"0", "1", "2", "3", "4", "5", "6", "7", "8", "9"}
\* \w of the regular expressions
WordChar == Lower \cup Upper \cup Digit \cup {"_"}
\* what str::trim removes, as far as the inputs hold it
Whitespace == {" ", "\t"}

\* the empty HashMap
EmptyMap == [x \in {} |-> x]

\* HashMap::insert: the new value replaces a stored one
MapInsert(m, k, v) == [x \in DOMAIN m \cup {k} |-> IF x = k THEN v ELSE m[x]]

\* all sequences of at most n elements of S
SeqsUpTo(S, n) == UNION {[1..m -> S] : m \in 0..n}

RECURSIVE Flatten(_)
\* the concatenation of a sequence of texts
Flatten(ss) == IF ss = <<>> THEN <<>> ELSE Head(ss) \o Flatten(Tail(ss))

----------------------------------------------------------------------------
(* XdgDesktopValue and crate::Result *)

StringV(t) == [tag |-> "String", s |-> t]
LocaleStringV(t) == [tag |-> "LocaleString", s |-> t]
IconStringV(t) == [tag |-> "IconString", s |-> t]
BoolV(b) == [tag |-> "Bool", b |-> b]
NumericV(n) == [tag |-> "Numeric", n |-> n]
ListV(l) == [tag |-> "List", l |-> l]

Ok(v) == [ok |-> TRUE, val |-> v]
Err(e) == [ok |-> FALSE, err |-> e]
\* the outcome of unreachable!(): the thread panics, nothing is returned
Panic == [ok |-> FALSE, err |-> "panic"]

----------------------------------------------------------------------------
(* The conversions of xdg_desktop_value.rs *)

parse_string(t) == Ok(StringV(t))
parse_locale_string(t) == Ok(LocaleStringV(t))
parse_icon_string(t) == Ok(IconStringV(t))

\* str::parse::<bool>: exactly "true" or "false"
parse_bool(t) ==
    IF t = <<"t", "r", "u", "e">> THEN Ok(BoolV(TRUE))
    ELSE IF t = <<"f", "a", "l", "s", "e">> THEN Ok(BoolV(FALSE))
    ELSE Err("ParseBoolError")

RECURSIVE DecimalValue(_)
\* the number a run of decimal digits reads as
DecimalValue(t) ==
    IF t = <<>> THEN 0
    ELSE 10 * DecimalValue(SubSeq(t, 1, Len(t) - 1))
         + (CHOOSE d \in 0..9 : ToString(d) = t[Len(t)])

\* str::parse::<f64>.  Of the float grammar (sign, digits, point, exponent,
\* inf, nan) the texts of this model hold digits only; on such text the
\* parse succeeds exactly on a non-empty run of digits, with its decimal value.
parse_numeric(t) ==
    IF t # <<>> /\ \A i \in 1..Len(t) : t[i] \in Digit
    THEN Ok(NumericV(DecimalValue(t)))
    ELSE Err("ParseFloatError")

\* VAL_DELIMITER = (?<!\\); matches at index i of t
VAL_DELIMITER_NoLookbehind(t, i) == t[i] = ";"
VAL_DELIMITER(t, i) == t[i] = ";" /\ (i = 1 \/ t[i - 1] # "\\")

RECURSIVE RegexSplits(_, _, _)
\* onig's split iterator: the text between successive matches, then the
\* rest of the text unless it is empty.  last is the end of the previous
\* match, i the next index to try.
RegexSplits(t, last, i) ==
    IF i > Len(t)
    THEN (IF last >= Len(t) THEN <<>> ELSE <<SubSeq(t, last + 1, Len(t))>>)
    ELSE IF VAL_DELIMITER(t, i)
         THEN <<SubSeq(t, last + 1, i - 1)>> \o RegexSplits(t, i, i + 1)
         ELSE RegexSplits(t, last, i + 1)

\* a split that also emits the empty text after a last match
VAL_DELIMITER_split_KeepEmptyTail(t) ==
    LET items == RegexSplits(t, 0, 1)
    IN  IF t # <<>> /\ VAL_DELIMITER(t, Len(t)) THEN Append(items, <<>>) ELSE items

\* VAL_DELIMITER.split(s)
VAL_DELIMITER_split(t) == RegexSplits(t, 0, 1)

\* a call through a fn(&str) -> Result<XdgDesktopValue> pointer
ApplyFn(f, t) ==
    CASE f = "parse_string" -> parse_string(t)
      [] f = "parse_locale_string" -> parse_locale_string(t)
      [] f = "parse_icon_string" -> parse_icon_string(t)
      [] f = "parse_bool" -> parse_bool(t)
      [] f = "parse_numeric" -> parse_numeric(t)

\* collect::<Result<Vec<_>, _>>(): the values, or the first error
Collect(rs) ==
    IF \A i \in 1..Len(rs) : rs[i].ok
    THEN Ok(ListV([i \in 1..Len(rs) |-> rs[i].val]))
    ELSE rs[CHOOSE i \in 1..Len(rs) :
                ~rs[i].ok /\ \A j \in 1..(i - 1) : rs[j].ok]

parse_plural(t, f) ==
    LET items == VAL_DELIMITER_split(t)
    IN  Collect([i \in 1..Len(items) |-> ApplyFn(f, items[i])])

\* LOCALE_SUFFIX = \[(?:[a-z]{2})(?:_[A-Z]{2})?(?:@\w+)?\] matches all of q
LOCALE_SUFFIX(q) ==
    /\ Len(q) >= 4
    /\ q[1] = "["
    /\ q[2] \in Lower
    /\ q[3] \in Lower
    /\ q[Len(q)] = "]"
    /\ LET mid == SubSeq(q, 4, Len(q) - 1)
       IN  \E c \in {0, 3} :
             /\ c <= Len(mid)
             /\ c = 3 => (mid[1] = "_" /\ mid[2] \in Upper /\ mid[3] \in Upper)
             /\ LET m == SubSeq(mid, c + 1, Len(mid))
                IN  \/ m = <<>>
                    \/ /\ Len(m) >= 2
                       /\ m[1] = "@"
                       /\ \A j \in 2..Len(m) : m[j] \in WordChar

\* the places (i, e) where LOCALE_SUFFIX matches t[i..e]
LocaleMatches(t) ==
    {p \in (1..Len(t)) \X (1..Len(t)) :
        p[1] <= p[2] /\ LOCALE_SUFFIX(SubSeq(t, p[1], p[2]))}

\* a strip that removes the tag only where it ends the key
strip_locale_anchored(t) ==
    LET ms == {p \in LocaleMatches(t) : p[2] = Len(t)}
    IN  IF ms = {} THEN t
        ELSE LET p == CHOOSE p \in ms : TRUE IN SubSeq(t, 1, p[1] - 1)

\* LOCALE_SUFFIX.replace(s, ""): the leftmost match, wherever it is, removed
strip_locale(t) ==
    LET ms == LocaleMatches(t)
    IN  IF ms = {} THEN t
        ELSE LET p == CHOOSE p \in ms : \A q \in ms : p[1] <= q[1]
             IN  SubSeq(t, 1, p[1] - 1) \o SubSeq(t, p[2] + 1, Len(t))

PARSE_FUNCS == <<"parse_bool", "parse_numeric", "parse_string">>

\* try_types with the text the first element's conversions are tried on
\* given apart: the loop over the elements, parse_fn set at the first one.
TryTypesOn(t, probe) ==
    LET items == VAL_DELIMITER_split(t)
        fits == {i \in 1..Len(PARSE_FUNCS) : ApplyFn(PARSE_FUNCS[i], probe).ok}
    IN  IF items = <<>> THEN Ok(ListV(<<>>))
        ELSE IF fits = {} THEN Panic
        ELSE LET f == PARSE_FUNCS[CHOOSE i \in fits : \A j \in fits : i <= j]
             IN  Collect([i \in 1..Len(items) |->
                            IF i = 1 THEN ApplyFn(f, probe)
                            ELSE ApplyFn(f, items[i])])

\* a try_types whose first element is converted from the element, f(v)
try_types_per_element(t) ==
    LET items == VAL_DELIMITER_split(t)
    IN  TryTypesOn(t, IF items = <<>> THEN t ELSE items[1])

\* try_types: the first element is converted from the whole value, f(s)
try_types(t) == TryTypesOn(t, t)

\* s.split_once('=')
split_once(t) ==
    IF \E i \in 1..Len(t) : t[i] = "="
    THEN LET i == CHOOSE i \in 1..Len(t) :
                    t[i] = "=" /\ \A j \in 1..(i - 1) : t[j] # "="
         IN  [found |-> TRUE, k |-> SubSeq(t, 1, i - 1),
              v |-> SubSeq(t, i + 1, Len(t))]
    ELSE [found |-> FALSE, k |-> t, v |-> <<>>]

StringKeys ==
    {<<"T", "y", "p", "e">>,
     <<"V", "e", "r", "s", "i", "o", "n">>,
     <<"E", "x", "e", "c">>,
     <<"T", "r", "y", "E", "x", "e", "c">>,
     <<"P", "a", "t", "h">>,
     <<"S", "t", "a", "r", "t", "u", "p", "W", "M", "C", "l", "a", "s", "s">>,
     <<"U", "R", "L">>}
LocaleStringKeys ==
    {<<"N", "a", "m", "e">>,
     <<"G", "e", "n", "e", "r", "i", "c", "N", "a", "m", "e">>,
     <<"C", "o", "m", "m", "e", "n", "t">>}
BoolKeys ==
    {<<"N", "o", "D", "i", "s", "p", "l", "a", "y">>,
     <<"H", "i", "d", "d", "e", "n">>,
     <<"T", "e", "r", "m", "i", "n", "a", "l">>,
     <<"S", "t", "a", "r", "t", "u", "p", "N", "o", "t", "i", "f", "y">>,
     <<"P", "r", "e", "f", "e", "r", "s", "N", "o", "n", "D", "e", "f", "a",
       "u", "l", "t", "G", "P", "U">>,
     <<"D", "B", "u", "s", "A", "c", "t", "i", "v", "a", "t", "a", "b", "l", "e">>}
IconKeys == {<<"I", "c", "o", "n">>}
LocaleStringsKeys == {<<"K", "e", "y", "w", "o", "r", "d", "s">>}
StringsKeys ==
    {<<"O", "n", "l", "y", "S", "h", "o", "w", "I", "n">>,
     <<"N", "o", "t", "S", "h", "o", "w", "I", "n">>,
     <<"A", "c", "t", "i", "o", "n", "s">>,
     <<"M", "i", "m", "e", "T", "y", "p", "e">>,
     <<"C", "a", "t", "e", "g", "o", "r", "i", "e", "s">>,
     <<"I", "m", "p", "l", "e", "m", "e", "n", "t", "s">>}
\* the keys the match of from_kv names
FixedKeyTable ==
    StringKeys \cup LocaleStringKeys \cup BoolKeys \cup IconKeys
        \cup LocaleStringsKeys \cup StringsKeys

\* the match on key_base, applied to v
parse_fn(key_base, v) ==
    CASE key_base \in StringKeys -> parse_string(v)
      [] key_base \in LocaleStringKeys -> parse_locale_string(v)
      [] key_base \in BoolKeys -> parse_bool(v)
      [] key_base \in IconKeys -> parse_icon_string(v)
      [] key_base \in LocaleStringsKeys -> parse_plural(v, "parse_locale_string")
      [] key_base \in StringsKeys -> parse_plural(v, "parse_string")
      [] OTHER -> try_types(v)

\* XdgDesktopValue::from_kv: the pair (key, result)
from_kv(t) ==
    LET kv == split_once(t)
    IN  IF ~kv.found
        THEN [key |-> t, res |-> Err("No delimiter found in line")]
        ELSE [key |-> kv.k, res |-> parse_fn(strip_locale(kv.k), kv.v)]

----------------------------------------------------------------------------
(* XdgDesktopFile::from_str, one action per arm of the loop's match *)

\* COMMENT_RE = #.* ; onig's is_match holds when the match that starts at
\* the first character covers the whole line
COMMENT_RE(ln) == Len(ln) >= 1 /\ ln[1] = "#"

\* comment.trim().is_empty()
trim_is_empty(ln) == \A i \in 1..Len(ln) : ln[i] \in Whitespace

\* SECTION_RE = \[(.*)\] ; is_match as for COMMENT_RE: the greedy .* runs to
\* the last "]", which has to end the line
SECTION_RE(ln) == Len(ln) >= 2 /\ ln[1] = "[" /\ ln[Len(ln)] = "]"

\* out.sections.insert(header.to_string(), current_entry), keeping what is stored
SectionsInsert_KeepStored(secs, h, entry) ==
    IF h \in DOMAIN secs THEN secs ELSE MapInsert(secs, h, entry)

\* out.sections.insert(header.to_string(), current_entry)
SectionsInsert(secs, h, entry) == MapInsert(secs, h, entry)

\* the line the loop is at
Ln == lines[pos + 1]

InLoop == ret = "running" /\ pos < Len(lines)

\* first arm: a comment or a blank line
SkipComment ==
    /\ InLoop
    /\ COMMENT_RE(Ln) \/ trim_is_empty(Ln)
    /\ pos' = pos + 1
    /\ UNCHANGED <<lines, sections, current_entry, current_entry_header, ret>>
    /\ UNCHANGED <<kvVars, dVars>>

\* second arm: a section header
OpenSection ==
    /\ InLoop
    /\ ~(COMMENT_RE(Ln) \/ trim_is_empty(Ln))
    /\ SECTION_RE(Ln)
    /\ IF current_entry_header # <<>>
       THEN /\ sections' = SectionsInsert(sections, current_entry_header[1],
                                          current_entry)
            /\ current_entry' = EmptyMap
       ELSE UNCHANGED <<sections, current_entry>>
    /\ current_entry_header' = <<Ln>>
    /\ pos' = pos + 1
    /\ UNCHANGED <<lines, ret>>
    /\ UNCHANGED <<kvVars, dVars>>

\* third arm, no section header yet: return Err
KeyWithoutHeader ==
    /\ InLoop
    /\ ~(COMMENT_RE(Ln) \/ trim_is_empty(Ln))
    /\ ~SECTION_RE(Ln)
    /\ current_entry_header = <<>>
    /\ ret' = "err"
    /\ UNCHANGED <<lines, pos, sections, current_entry, current_entry_header>>
    /\ UNCHANGED <<kvVars, dVars>>

\* a third arm that hands a failed entry on as the parse's failure
InsertEntry_Propagate ==
    /\ InLoop
    /\ ~(COMMENT_RE(Ln) \/ trim_is_empty(Ln))
    /\ ~SECTION_RE(Ln)
    /\ current_entry_header # <<>>
    /\ LET kv == from_kv(Ln)
       IN  IF kv.res.ok
           THEN /\ current_entry' = MapInsert(current_entry, kv.key, kv.res)
                /\ pos' = pos + 1
                /\ UNCHANGED ret
           ELSE /\ ret' = "err"
                /\ UNCHANGED <<current_entry, pos>>
    /\ UNCHANGED <<lines, sections, current_entry_header>>
    /\ UNCHANGED <<kvVars, dVars>>

\* third arm, a section is open: from_kv and current_entry.insert
InsertEntry ==
    /\ InLoop
    /\ ~(COMMENT_RE(Ln) \/ trim_is_empty(Ln))
    /\ ~SECTION_RE(Ln)
    /\ current_entry_header # <<>>
    /\ LET kv == from_kv(Ln)
       IN  current_entry' = MapInsert(current_entry, kv.key, kv.res)
    /\ pos' = pos + 1
    /\ UNCHANGED <<lines, sections, current_entry_header, ret>>
    /\ UNCHANGED <<kvVars, dVars>>

\* an end of input that matches on the header whatever current_entry holds
EndOfInput_NoEmptyCheck ==
    /\ ret = "running"
    /\ pos = Len(lines)
    /\ IF current_entry_header # <<>>
       THEN /\ sections' = SectionsInsert(sections, current_entry_header[1],
                                          current_entry)
            /\ ret' = "ok"
       ELSE /\ ret' = "err"
            /\ UNCHANGED sections
    /\ UNCHANGED <<lines, pos, current_entry, current_entry_header>>
    /\ UNCHANGED <<kvVars, dVars>>

\* after the loop: the last section is stored if it holds an entry
EndOfInput ==
    /\ ret = "running"
    /\ pos = Len(lines)
    /\ IF DOMAIN current_entry # {}
       THEN IF current_entry_header # <<>>
            THEN /\ sections' = SectionsInsert(sections, current_entry_header[1],
                                               current_entry)
                 /\ ret' = "ok"
            ELSE /\ ret' = "err"
                 /\ UNCHANGED sections
       ELSE /\ ret' = "ok"
            /\ UNCHANGED sections
    /\ UNCHANGED <<lines, pos, current_entry, current_entry_header>>
    /\ UNCHANGED <<kvVars, dVars>>

\* the lines the inputs of from_str are made of
BlankLine == <<" ">>
CommentLine == <<"#", "c">>
HeaderA == <<"[", "A", "]">>
HeaderB == <<"[", "B", "]">>
LineA1 == <<"a", "=", "1">>
LineANo == <<"a", "=", "n", "o">>
LineHiddenX == <<"H", "i", "d", "d", "e", "n", "=", "x">>
LineZz == <<"z", "z">>
FileLines ==
    {BlankLine, CommentLine, HeaderA, HeaderB, LineA1, LineANo, LineHiddenX, LineZz}

HeaderDE ==
    <<"[", "D", "e", "s", "k", "t", "o", "p", " ", "E", "n", "t", "r", "y", "]">>
LineName == <<"N", "a", "m", "e", "=", "T", "e", "s", "t", " ", "A", "p", "p">>
LineTerminal ==
    <<"T", "e", "r", "m", "i", "n", "a", "l", "=", "f", "a", "l", "s", "e">>
LineCategories ==
    <<"C", "a", "t", "e", "g", "o", "r", "i", "e", "s", "=", "U", "t", "i", "l",
      "i", "t", "y", ";", "D", "e", "v", "e", "l", "o", "p", "m", "e", "n", "t", ";">>
LineIcon == <<"I", "c", "o", "n", "=", "i">>
DesktopEntryLines ==
    {HeaderDE, CommentLine, LineName, LineTerminal, LineCategories, LineIcon}

KvIdle ==
    /\ kv_s = <<>>
    /\ kv_k = <<>>
    /\ kv_v = <<>>
    /\ kv_key_base = <<>>
    /\ kv_ret = <<>>
    /\ kv_pc = "idle"

DIdle ==
    /\ d_self = <<>>
    /\ d_stack = <<>>
    /\ d_out = <<>>
    /\ d_status = "idle"

FileIdle ==
    /\ lines = <<>>
    /\ pos = 0
    /\ sections = EmptyMap
    /\ current_entry = EmptyMap
    /\ current_entry_header = <<>>
    /\ ret = "idle"

\* the state from_str starts in, on an input made of the lines of LineSet
FromStrInit(LineSet) ==
    /\ lines \in SeqsUpTo(LineSet, MaxLines)
    /\ pos = 0
    /\ sections = EmptyMap
    /\ current_entry = EmptyMap
    /\ current_entry_header = <<>>
    /\ ret = "running"

Init == FromStrInit(FileLines) /\ KvIdle /\ DIdle

Next ==
    \/ SkipComment
    \/ OpenSection
    \/ KeyWithoutHeader
    \/ InsertEntry
    \/ EndOfInput

\* from_str on any input of at most MaxLines lines of FileLines
Spec == Init /\ [][Next]_vars

InitDE == FromStrInit(DesktopEntryLines) /\ KvIdle /\ DIdle

\* from_str on inputs made of the lines of the [Desktop Entry] example
SpecDE == InitDE /\ [][Next]_vars

----------------------------------------------------------------------------
(* XdgDesktopValue::from_kv on its own, its locals kept as state *)

\* the pieces the value texts are made of
ValueChunks ==
    {<<";">>, <<"\\">>, <<"t", "r", "u", "e">>, <<"f", "a", "l", "s", "e">>,
     <<"1">>, <<"x">>}
ValueTexts == {Flatten(cs) : cs \in SeqsUpTo(ValueChunks, MaxValueChunks)}

\* the pieces the keys are made of
KeyChunks ==
    {<<"N", "a", "m", "e">>, <<"[", "e", "s">>, <<"_", "C", "L">>,
     <<"@", "L", "a">>, <<"]">>, <<"x">>}
KeyTexts == {Flatten(cs) : cs \in SeqsUpTo(KeyChunks, MaxKeyChunks)}

KeyKeywords == <<"K", "e", "y", "w", "o", "r", "d", "s">>
KeyCategories == <<"C", "a", "t", "e", "g", "o", "r", "i", "e", "s">>
KeyMimeTypeEs == <<"M", "i", "m", "e", "T", "y", "p", "e", "[", "e", "s", "]">>
KeyHidden == <<"H", "i", "d", "d", "e", "n">>
KeyX == <<"X">>

\* the input of tests::test_list
LineKeywordsTest ==
    <<"K", "e", "y", "w", "o", "r", "d", "s", "=", "s", "y", "s", "t", "e", "m",
      ";", "p", "r", "o", "c", "e", "s", "s", ";", "t", "a", "s", "k">>

\* the lines from_kv is called on: every value text under a few keys, every
\* key with one value, and lines without "="
KvLines ==
    {k \o <<"=">> \o v :
        k \in {KeyKeywords, KeyCategories, KeyMimeTypeEs, KeyHidden, KeyX},
        v \in ValueTexts}
    \cup {k \o <<"=", "t", "r", "u", "e">> : k \in KeyTexts}
    \cup {LineKeywordsTest, LineZz, <<>>, <<"x", ";", "x">>}

InitKV ==
    /\ kv_s \in KvLines
    /\ kv_k = <<>>
    /\ kv_v = <<>>
    /\ kv_key_base = <<>>
    /\ kv_ret = <<>>
    /\ kv_pc = "call"
    /\ FileIdle
    /\ DIdle

\* split_once finds no "=": return (s, Err(Other(..)))
FromKvNoDelimiter ==
    /\ kv_pc = "call"
    /\ ~split_once(kv_s).found
    /\ kv_ret' = from_kv(kv_s)
    /\ kv_pc' = "done"
    /\ UNCHANGED <<kv_s, kv_k, kv_v, kv_key_base>>
    /\ UNCHANGED <<fileVars, dVars>>

\* the rest of from_kv: strip_locale, the match on key_base, parse_fn(v)
FromKvParse ==
    /\ kv_pc = "call"
    /\ split_once(kv_s).found
    /\ kv_k' = split_once(kv_s).k
    /\ kv_v' = split_once(kv_s).v
    /\ kv_key_base' = strip_locale(split_once(kv_s).k)
    /\ kv_ret' = from_kv(kv_s)
    /\ kv_pc' = "done"
    /\ UNCHANGED kv_s
    /\ UNCHANGED <<fileVars, dVars>>

NextKV == FromKvNoDelimiter \/ FromKvParse

\* one call of from_kv on any line of KvLines
SpecKV == InitKV /\ [][NextKV]_vars

----------------------------------------------------------------------------
(* Into<String>, Display::fmt and ToString::to_string as a call stack *)

DisplayScalars ==
    {StringV(<<"a">>), LocaleStringV(<<"b">>), IconStringV(<<"i">>),
     BoolV(TRUE), BoolV(FALSE), NumericV(0), NumericV(12)}
DisplayValues ==
    DisplayScalars \cup {ListV(l) : l \in SeqsUpTo(DisplayScalars, MaxListLen)}

RECURSIVE DecimalText(_)
\* f64::to_string of a whole number, bool::to_string
DecimalText(n) ==
    IF n < 10 THEN <<ToString(n)>>
    ELSE DecimalText(n \div 10) \o <<ToString(n % 10)>>
BoolText(b) == IF b THEN <<"t", "r", "u", "e">> ELSE <<"f", "a", "l", "s", "e">>

Frame(fn, v) == [fn |-> fn, self |-> v]
Top == d_stack[Len(d_stack)]
Executing(fn) == d_status = "running" /\ d_stack # <<>> /\ Top.fn = fn

\* a caller converts a value: value.into() or value.to_string()
InitDisplay ==
    /\ d_self \in DisplayValues
    /\ \E fn \in {"into", "to_string"} : d_stack = <<Frame(fn, d_self)>>
    /\ d_out = <<>>
    /\ d_status = "running"
    /\ FileIdle
    /\ KvIdle

\* into, the arms of the strings, Bool and Numeric: return the text
IntoScalar ==
    /\ Executing("into")
    /\ Top.self.tag # "List"
    /\ d_out' = CASE Top.self.tag = "Bool" -> BoolText(Top.self.b)
                  [] Top.self.tag = "Numeric" -> DecimalText(Top.self.n)
                  [] OTHER -> Top.self.s
    /\ d_stack' = <<>>
    /\ d_status' = "returned"
    /\ UNCHANGED d_self
    /\ UNCHANGED <<fileVars, kvVars>>

\* into, the List arm on an empty list: the loop runs no step, return out
IntoEmptyList ==
    /\ Executing("into")
    /\ Top.self.tag = "List"
    /\ Top.self.l = <<>>
    /\ d_out' = <<>>
    /\ d_stack' = <<>>
    /\ d_status' = "returned"
    /\ UNCHANGED d_self
    /\ UNCHANGED <<fileVars, kvVars>>

\* into, the List arm: the iterator calls XdgDesktopValue::to_string on the
\* first element (push_str and push follow once the call returns)
IntoListElement ==
    /\ Executing("into")
    /\ Top.self.tag = "List"
    /\ Top.self.l # <<>>
    /\ Len(d_stack) < StackLimit
    /\ d_stack' = Append(d_stack, Frame("to_string", Top.self.l[1]))
    /\ UNCHANGED <<d_self, d_out, d_status>>
    /\ UNCHANGED <<fileVars, kvVars>>

\* XdgDesktopValue has no to_string of its own: the call is ToString's
\* blanket implementation for Display types, which calls Display::fmt
ToStringCallsFmt ==
    /\ Executing("to_string")
    /\ Len(d_stack) < StackLimit
    /\ d_stack' = Append(d_stack, Frame("fmt", Top.self))
    /\ UNCHANGED <<d_self, d_out, d_status>>
    /\ UNCHANGED <<fileVars, kvVars>>

\* Display::fmt: write!(f, "{}", self.to_string()) evaluates self.to_string()
FmtCallsToString ==
    /\ Executing("fmt")
    /\ Len(d_stack) < StackLimit
    /\ d_stack' = Append(d_stack, Frame("to_string", Top.self))
    /\ UNCHANGED <<d_self, d_out, d_status>>
    /\ UNCHANGED <<fileVars, kvVars>>

\* a call with the stack full: the thread overflows its stack and aborts
StackOverflow ==
    /\ d_status = "running"
    /\ Len(d_stack) >= StackLimit
    /\ Top.fn \in {"to_string", "fmt"} \/ Top.self.tag = "List"
    /\ d_status' = "stack_overflow"
    /\ UNCHANGED <<d_self, d_stack, d_out>>
    /\ UNCHANGED <<fileVars, kvVars>>

NextDisplay ==
    \/ IntoScalar
    \/ IntoEmptyList
    \/ IntoListElement
    \/ ToStringCallsFmt
    \/ FmtCallsToString
    \/ StackOverflow

\* one conversion of any value of DisplayValues to its display string
SpecDisplay == InitDisplay /\ [][NextDisplay]_vars

----------------------------------------------------------------------------
(* The claims *)

\* the lines of the inputs by kind, as written rather than as classified
CommentLits == {BlankLine, CommentLine}
HeaderLits == {HeaderA, HeaderB, HeaderDE}
KvLits == (FileLines \cup DesktopEntryLines) \ (CommentLits \cup HeaderLits)

\* the entry each key/value line of the inputs stands for
ExpectedEntry(ln) ==
    CASE ln = LineA1 -> [key |-> <<"a">>, res |-> Ok(ListV(<<NumericV(1)>>))]
      [] ln = LineANo ->
            [key |-> <<"a">>, res |-> Ok(ListV(<<StringV(<<"n", "o">>)>>))]
      [] ln = LineHiddenX -> [key |-> KeyHidden, res |-> Err("ParseBoolError")]
      [] ln = LineZz -> [key |-> LineZz, res |-> Err("No delimiter found in line")]
      [] ln = LineName ->
            [key |-> <<"N", "a", "m", "e">>,
             res |-> Ok(LocaleStringV(<<"T", "e", "s", "t", " ", "A", "p", "p">>))]
      [] ln = LineTerminal ->
            [key |-> <<"T", "e", "r", "m", "i", "n", "a", "l">>,
             res |-> Ok(BoolV(FALSE))]
      [] ln = LineCategories ->
            [key |-> KeyCategories,
             res |-> Ok(ListV(<<StringV(<<"U", "t", "i", "l", "i", "t", "y">>),
                                StringV(<<"D", "e", "v", "e", "l", "o", "p",
                                          "m", "e", "n", "t">>)>>))]
      [] ln = LineIcon -> [key |-> <<"I", "c", "o", "n">>, res |-> Ok(IconStringV(<<"i">>))]

\* some key/value line stands before the first section header of the input
KeyBeforeHeader ==
    \E i \in 1..Len(lines) :
        lines[i] \in KvLits /\ \A j \in 1..(i - 1) : lines[j] \notin HeaderLits

\* C1: from_str returns the structural error exactly when a key/value line
\* stands before the first section header, and then at that line, never
\* at the end of the input; every other input gives Ok.
C1_FailsIffKeyBeforeHeader ==
    /\ ret = "err" => (KeyBeforeHeader /\ pos < Len(lines) /\ lines[pos + 1] \in KvLits)
    /\ ret = "ok" => ~KeyBeforeHeader
    /\ (ret = "running" /\ pos = Len(lines)) => ~KeyBeforeHeader

\* C1 witness: the parse has failed at a key/value line after skipped lines
C1_Witness == ret = "err" /\ pos > 0 /\ lines[pos + 1] \in KvLits

\* the key/value lines of the inputs whose entry is an error
FailingKvLits == {LineHiddenX, LineZz}

\* C2: once a section header is open, a key/value line whose value fails its
\* conversion, or that has no "=", does not fail the parse: the open section
\* holds an error under the line's key (the whole line without "="), the
\* lines after it are processed and from_str returns Ok.
C2_EntryErrorsAreStored ==
    /\ ret = "err" => \A j \in 1..pos : lines[j] \notin HeaderLits
    /\ \A i \in 1..pos :
         (lines[i] \in FailingKvLits /\ \E j \in 1..(i - 1) : lines[j] \in HeaderLits)
         => LET key == ExpectedEntry(lines[i]).key
            IN  /\ ret \in {"running", "ok"}
                /\ (i = pos /\ ret = "running")
                   => (key \in DOMAIN current_entry /\ ~current_entry[key].ok)
                /\ ret = "ok" => pos = Len(lines)
                /\ (i = pos /\ ret = "ok")
                   => LET h == current_entry_header[1]
                      IN  /\ h \in DOMAIN sections
                          /\ key \in DOMAIN sections[h]
                          /\ sections[h][key] = ExpectedEntry(lines[i]).res

\* C2 witness: Ok is returned for an input with a failing entry under an
\* open header and a further key/value line after it
C2_Witness ==
    /\ ret = "ok"
    /\ \E i \in 2..(Len(lines) - 1) :
         /\ lines[i] \in FailingKvLits
         /\ lines[1] \in HeaderLits
         /\ lines[Len(lines)] \in KvLits

\* the index after the lines under the header at line i
SpanEnd(i) ==
    IF \E j \in (i + 1)..Len(lines) : lines[j] \in HeaderLits
    THEN CHOOSE j \in (i + 1)..Len(lines) :
            lines[j] \in HeaderLits /\ \A m \in (i + 1)..(j - 1) : lines[m] \notin HeaderLits
    ELSE Len(lines) + 1

\* the key/value lines under the header at line i
SpanKv(i) == {j \in (i + 1)..(SpanEnd(i) - 1) : lines[j] \in KvLits}

\* the entries that accumulate under the header at line i
SpanEntries(i) ==
    [k \in {ExpectedEntry(lines[j]).key : j \in SpanKv(i)} |->
        LET last == CHOOSE j \in SpanKv(i) :
                      /\ ExpectedEntry(lines[j]).key = k
                      /\ \A m \in SpanKv(i) : ExpectedEntry(lines[m]).key = k => m <= j
        IN  ExpectedEntry(lines[last]).res]

\* C3: when a header line occurs twice and key/value lines follow each
\* occurrence, the result holds for it the entries of the later occurrence
\* alone.
C3_LaterSectionWins ==
    \A h \in HeaderLits :
        LET occ == {i \in 1..Len(lines) : lines[i] = h}
        IN  (ret = "ok" /\ Cardinality(occ) = 2 /\ \A i \in occ : SpanKv(i) # {})
            => /\ h \in DOMAIN sections
               /\ sections[h] = SpanEntries(CHOOSE i \in occ : \A j \in occ : j <= i)

\* C3 witness: a header twice, the same key under both occurrences
C3_Witness == ret = "ok" /\ lines = <<HeaderA, LineA1, HeaderA, LineANo>>

\* C4: every section of the result of from_str holds at least one entry: a
\* header with no key/value line before the next header or the end of input
\* yields no section, and replaces no stored one by an empty one.
C4_NoEmptySection ==
    ret = "ok" => \A h \in DOMAIN sections : DOMAIN sections[h] # {}

\* the input is [Desktop Entry] followed by key/value lines with distinct keys
DesktopEntryFile ==
    /\ Len(lines) >= 2
    /\ lines[1] = HeaderDE
    /\ \A i \in 2..Len(lines) : lines[i] \in KvLits
    /\ \A i, j \in 2..Len(lines) : i # j => lines[i] # lines[j]

\* C5: a [Desktop Entry] header followed by lines with distinct keys of the
\* fixed table gives one section with one entry per line, typed by the table:
\* Name a LocaleString, Terminal a Bool, Categories a List of Strings with no
\* empty last element for its trailing ";".
C5_DesktopEntryExample ==
    (ret = "ok" /\ DesktopEntryFile)
    => /\ DOMAIN sections = {HeaderDE}
       /\ DOMAIN sections[HeaderDE] = {ExpectedEntry(lines[i]).key : i \in 2..Len(lines)}
       /\ Cardinality(DOMAIN sections[HeaderDE]) = Len(lines) - 1
       /\ \A i \in 2..Len(lines) :
            sections[HeaderDE][ExpectedEntry(lines[i]).key] = ExpectedEntry(lines[i]).res

\* C5 witness: the example file has been parsed
C5_Witness == ret = "ok" /\ lines = <<HeaderDE, LineName, LineTerminal, LineCategories>>

\* from_kv has returned for a line that holds "="
KvParsed == kv_pc = "done" /\ \E i \in 1..Len(kv_s) : kv_s[i] = "="

\* C6: the base key is the raw key without a locale qualifier that ends it,
\* the raw key when none ends it; the returned key is the raw key.
C6_BaseKeyStripsTrailingLocale ==
    KvParsed => (kv_key_base = strip_locale_anchored(kv_k) /\ kv_ret.key = kv_k)

\* the indices of the ";" of v that no backslash precedes
Cuts(v) == {i \in 1..Len(v) : v[i] = ";" /\ ~(i > 1 /\ v[i - 1] = "\\")}

\* the j-th of them
NthCut(v, j) == CHOOSE c \in Cuts(v) : Cardinality({d \in Cuts(v) : d < c}) = j - 1

\* v cut at every index of Cuts(v) and nowhere else, in order; the text
\* after the last cut counts only when it is not empty
Pieces(v) ==
    LET n == Cardinality(Cuts(v))
        all == [j \in 1..(n + 1) |->
                  SubSeq(v, IF j = 1 THEN 1 ELSE NthCut(v, j - 1) + 1,
                            IF j <= n THEN NthCut(v, j) - 1 ELSE Len(v))]
    IN  IF all[n + 1] = <<>> THEN SubSeq(all, 1, n) ELSE all

\* C7: a list conversion (Keywords, the list-of-plain-strings keys) returns
\* Ok with the value cut at every ";" not preceded by a backslash and nowhere
\* else, the elements in input order with their backslashes kept.
C7_ListSplitsAtUnescapedDelimiters ==
    (KvParsed /\ kv_key_base \in {KeyKeywords, KeyCategories, <<"M", "i", "m", "e", "T", "y", "p", "e">>})
    => /\ kv_k \o <<"=">> \o kv_v = kv_s
       /\ kv_ret.res.ok
       /\ kv_ret.res.val.tag = "List"
       /\ Len(kv_ret.res.val.l) = Len(Pieces(kv_v))
       /\ \A j \in 1..Len(Pieces(kv_v)) :
            kv_ret.res.val.l[j] =
                IF kv_key_base = KeyKeywords THEN LocaleStringV(Pieces(kv_v)[j])
                ELSE StringV(Pieces(kv_v)[j])

\* C7 witness: a Keywords value with a ";" that cuts and an escaped one that
\* does not
C7_Witness ==
    /\ kv_pc = "done"
    /\ kv_k = KeyKeywords
    /\ kv_v = <<";", "\\", ";">>
    /\ kv_ret.res = Ok(ListV(<<LocaleStringV(<<>>), LocaleStringV(<<"\\", ";">>)>>))

\* the Display/Into<String> text of a value
RECURSIVE DisplayText(_)
DisplayText(v) ==
    CASE v.tag = "Bool" -> BoolText(v.b)
      [] v.tag = "Numeric" -> DecimalText(v.n)
      [] v.tag = "List" ->
            Flatten([i \in 1..Len(v.l) |-> DisplayText(v.l[i]) \o <<";">>])
      [] OTHER -> v.s

\* C8: converting any value to its display string completes and returns the
\* text of a string, the textual form of a Bool or Numeric, and for a List
\* the display string of each element followed by ";".
C8_DisplayReturns ==
    /\ d_status # "stack_overflow"
    /\ d_status = "returned" => d_out = DisplayText(d_self)

\* boolean literals, numeric literals
IsBoolText(p) == p \in {<<"t", "r", "u", "e">>, <<"f", "a", "l", "s", "e">>}
IsNumericText(p) == p # <<>> /\ \A i \in 1..Len(p) : p[i] \in Digit

\* the homogeneous List the elements ps convert to, each from its own text
ProbedList(ps) ==
    ListV([i \in 1..Len(ps) |->
             IF \A j \in 1..Len(ps) : IsBoolText(ps[j])
             THEN BoolV(ps[i] = <<"t", "r", "u", "e">>)
             ELSE IF \A j \in 1..Len(ps) : IsNumericText(ps[j])
                  THEN NumericV(DecimalValue(ps[i]))
                  ELSE StringV(ps[i])])

\* C9: for a key outside the fixed table whose value splits into n > 1
\* elements, from_kv returns a List of n values, the i-th converted from the
\* i-th element alone: all Bool, else all Numeric, else all String.
C9_ProbedListPerElement ==
    (KvParsed /\ kv_key_base \notin FixedKeyTable /\ Len(Pieces(kv_v)) > 1)
    => kv_ret.res = Ok(ProbedList(Pieces(kv_v)))

\* C10: for a line with "=" whose base key is outside the fixed table,
\* from_kv returns Ok: no error and no panic of try_types, whatever the value.
C10_ProbingNeverFails ==
    (KvParsed /\ kv_key_base \notin FixedKeyTable) => kv_ret.res.ok

\* C10 witness: a value of several elements, a numeric one before another text
C10_Witness ==
    /\ kv_pc = "done"
    /\ kv_k = KeyX
    /\ kv_v = <<"1", ";", "x">>
    /\ kv_ret.res.ok

====
